---------------------------- MODULE Spec2Model ----------------------------
(***************************************************************************)
(* State-machine model of src/server_processing.py: the Flask handlers     *)
(* upload, status and download, the background worker process_images, and  *)
(* the environment they touch (the `which` probe, the photogrammetry       *)
(* subprocess, the results directory).                                     *)
(*                                                                         *)
(* The job table is shared without locks between the request threads and   *)
(* the worker threads, so every subscript read and every subscript store   *)
(* of the source is a step of its own, named after its source line.        *)
(***************************************************************************)
EXTENDS Integers, Sequences, FiniteSets, TLC

(***************************************************************************)
(* Bounds of the model.                                                    *)
(***************************************************************************)
\* number of job identifiers uuid4 hands out
MaxJobs == 1
\* number of jobs of the specification of concurrent jobs
MaxPair == 2
\* an identifier is drawn again only while its entry has held at most this
\* many statuses
MaxHist == 2
\* number of heartbeat iterations the subprocess may stay alive for, where
\* the polling loop is bounded
MaxBeats == 2
\* number of multipart file parts in one upload request
MaxFiles == 2
\* how far the subprocess's error output may exceed the excerpt length
MaxErrExcess == 1

JobIds == 1..MaxJobs
\* the identifiers of the two-job specification
PairIds == 1..MaxPair
\* every identifier some specification draws
Slots == JobIds \cup PairIds
\* an identifier a client may ask for that uuid4 never returned
NoSuchId == 0
ReqIds == JobIds \cup {NoSuchId}

(***************************************************************************)
(* IEEE-754 doubles.  progress is a Python float; a double d in [0, 2) is  *)
(* represented exactly by the integer d * 2^59, held in two limbs          *)
(* <<hi, lo>> = hi * 2^30 + lo.                                            *)
(***************************************************************************)
Limb == 2^30

\* the literal 0.0 (lines 69, 103)
F0_0 == <<0, 0>>
\* the literal 0.01 (line 138)
F0_01 == <<5368709, 128849019>>
\* the literal 0.1 (line 92)
F0_1 == <<53687091, 214748368>>
\* the literal 0.2 (line 123)
F0_2 == <<107374182, 429496736>>
\* the literal 0.9 (line 137)
F0_9 == <<483183820, 858993472>>
\* the literal 1.0 (line 144)
F1_0 == <<536870912, 0>>

\* a < b on doubles
FLt(a, b) == a[1] < b[1] \/ (a[1] = b[1] /\ a[2] < b[2])
FLe(a, b) == a = b \/ FLt(a, b)

\* unit in the last place of a value whose high limb is hi, in units of 2^-59
Ulp(hi) ==
    IF hi >= 2^29 THEN 128
    ELSE IF hi >= 2^28 THEN 64
    ELSE IF hi >= 2^27 THEN 32
    ELSE IF hi >= 2^26 THEN 16
    ELSE IF hi >= 2^25 THEN 8
    ELSE IF hi >= 2^24 THEN 4
    ELSE IF hi >= 2^23 THEN 2
    ELSE 1

\* a + b on doubles: the exact sum rounded to nearest, ties to even
FAdd(a, b) ==
    LET lo0 == a[2] + b[2]
        hi0 == a[1] + b[1] + (lo0 \div Limb)
        lo1 == lo0 % Limb
        u   == Ulp(hi0)
        r   == lo1 % u
        dn  == lo1 - r
        up  == IF 2 * r > u THEN TRUE
               ELSE IF 2 * r < u THEN FALSE
               ELSE (dn \div u) % 2 = 1
        lo2 == IF up THEN dn + u ELSE dn
    IN  <<hi0 + (lo2 \div Limb), lo2 % Limb>>

(***************************************************************************)
(* Strings.  A str is a sequence of characters; characters are numbers.    *)
(***************************************************************************)
\* the excerpt length of stderr[:100]
ErrCap == 100

\* s[:n] for n >= 0
Slice(s, n) == SubSeq(s, 1, IF Len(s) < n THEN Len(s) ELSE n)

\* the i-th character the subprocess writes to stderr
ErrChar(i) == 1 + (i % 3)
ErrText(n) == [i \in 1..n |-> ErrChar(i)]
\* lengths of error output the subprocess may produce
ErrLens == {0, ErrCap} \cup {ErrCap + k : k \in 1..MaxErrExcess}

\* str(e) of an exception that reaches the outer handler
ExcText == <<0>>

(***************************************************************************)
(* Values of the job table.                                                *)
(***************************************************************************)
None == <<>>
\* str(RESULTS_DIR / f"{job_id}.usdz")
ResultPath(j) == <<"photogrammetry_results", j, "usdz">>
\* str(UPLOAD_DIR / job_id)
JobDir(j) == <<"photogrammetry_uploads", j>>

Stage(msg, detail) == [msg |-> msg, detail |-> detail]

\* the dict literal of lines 67-73
NewJob(j) ==
    [status      |-> "processing",
     progress    |-> F0_0,
     stage       |-> Stage("Starting processing...", <<>>),
     job_dir     |-> JobDir(j),
     output_file |-> None]

\* what a status response reports of an entry (lines 162-166)
Triple(job) == <<job.status, job.progress, job.stage>>

Terminal == {"completed", "failed"}

VARIABLES
    jobs,      \* the dict jobs: job id -> entry
    dirs,      \* UPLOAD_DIR on disk: job id -> saved files, filename -> payload
    results,   \* RESULTS_DIR on disk: set of paths that exist
    up,        \* the latest upload request: position, job id, files, response
    wpc,       \* position of each job's worker thread in process_images
    wloc,      \* locals of each worker: probe outcome, returncode, stderr, exists
    beats,     \* iterations of the polling loop each worker has run,
               \* counted up to MaxBeats
    tool,      \* the photogrammetry subprocess of each job
    req,       \* the client's latest status or download request: position,
               \* the fields read so far, the response, the preceding poll,
               \* and what held when it arrived (was, returned)
    hist,      \* per job, the statuses its entry has held, in order
    held       \* per job, the (status, progress, stage) triples its entry
               \* has held

vars == <<jobs, dirs, results, up, wpc, wloc, beats, tool, req, hist, held>>

NoPoll == [status |-> "none", progress |-> <<>>]
NoUpload == [pc |-> "idle", id |-> 0, files |-> <<>>, code |-> 0]
NoReq == [kind |-> "none", id |-> 0, pc |-> "idle", was |-> "absent",
          status |-> "unread", progress |-> <<>>, stage |-> <<>>,
          output_file |-> None, code |-> 0, file |-> None, prev |-> NoPoll,
          returned |-> FALSE]
NoTool == [state |-> "none"]
NoLoc == [probe |-> "none", returncode |-> -1, stderr |-> <<>>, exists |-> FALSE]

Init ==
    /\ jobs = << >>
    /\ dirs = << >>
    /\ results = {}
    /\ up = NoUpload
    /\ wpc = [j \in Slots |-> "none"]
    /\ wloc = [j \in Slots |-> NoLoc]
    /\ beats = [j \in Slots |-> 0]
    /\ tool = [j \in Slots |-> NoTool]
    /\ req = NoReq
    /\ hist = [j \in Slots |-> <<>>]
    /\ held = [j \in Slots |-> {}]

(***************************************************************************)
(* upload (lines 42-86).                                                   *)
(***************************************************************************)
\* filenames of the parts sent under `images`; a part sent for a file input
\* left empty has the filename ""
Filenames == {"", "a.jpg", "b.jpg"}
\* a file part: the field it was sent under and its filename
Parts ==
    [key : {"images"}, filename : Filenames]
        \cup [key : {"mask"}, filename : {"m.png"}]
\* request.files: the multipart file parts in the order they were sent
FileLists == UNION {[1..n -> Parts] : n \in 0..MaxFiles}

\* request.files.items(): a MultiDict yields, for each key, its first value
Items(files) ==
    {i \in 1..Len(files) : \A k \in 1..(i-1) : files[k].key # files[i].key}

\* the parts the loop of lines 56-61 takes: those sent under `images`
ImageFiles(files) == {i \in Items(files) : files[i].key = "images"}

\* line 60: file.save(job_dir / "") names the directory itself and raises
SaveRaises(files, i) == files[i].filename = ""

\* the parts the loop saves before it ends or a save raises
SavedParts(files) ==
    {i \in ImageFiles(files) :
        \A k \in ImageFiles(files) : k <= i => ~SaveRaises(files, k)}

\* the job directory after the loop: filename -> content of the part saved
\* last under it, the content of part i being i
Saved(files) ==
    [f \in {files[i].filename : i \in SavedParts(files)} |->
        CHOOSE i \in SavedParts(files) :
            /\ files[i].filename = f
            /\ \A k \in SavedParts(files) : files[k].filename = f => k <= i]

\* the response of lines 46-64 and 85-86, 0 while the request goes on;
\* made: job_dir.mkdir of line 48 did not raise (it raises when the upload
\* root is gone or cannot be written to)
Validate(files, made) ==
    IF ~made THEN 500
    ELSE IF \E i \in ImageFiles(files) : SaveRaises(files, i) THEN 500
    ELSE IF ImageFiles(files) = {} THEN 400
    ELSE 0

\* an identifier of ids that was never drawn before
Fresh(ids) ==
    LET fresh == ids \ DOMAIN dirs
    IN  {j \in fresh : \A k \in fresh : j <= k}

\* uuid.uuid4(): an identifier that was never drawn before
uuid4 == Fresh(JobIds)

\* uuid.uuid4() drawing an identifier a second time; the draw is taken up
\* only once the identifier's first worker, if any, has ended
uuid4_again ==
    {j \in JobIds \cap DOMAIN dirs :
        /\ wpc[j] \in {"none", "done"}
        /\ Len(hist[j]) <= MaxHist}

\* the disk after job_dir.mkdir(exist_ok=True) of line 48 (saved = <<>>) and
\* after the saves of lines 56-61 into the directory: an existing directory
\* keeps the files that are not saved again
Mkdir(j, saved) ==
    [k \in DOMAIN dirs \cup {j} |->
        IF k # j THEN dirs[k]
        ELSE IF j \in DOMAIN dirs THEN saved @@ dirs[j]
        ELSE saved]

\* lines 46-48: draw the id and make the job directory, which is empty if
\* it is new; lines 85-86: answer 500 if mkdir raised (nothing is on disk
\* then and no part was looked at)
upload_L46_drawing(files, ids) ==
    /\ up.pc \in {"idle", "done"}
    /\ \E j \in ids, made \in BOOLEAN :
        /\ dirs' = IF made THEN Mkdir(j, <<>>) ELSE dirs
        /\ up' = IF made
                 THEN [pc |-> "L56", id |-> j, files |-> files, code |-> 0]
                 ELSE [pc |-> "done", id |-> j, files |-> files,
                       code |-> Validate(files, made)]
    /\ UNCHANGED <<jobs, results, wpc, wloc, beats, tool, req, hist, held>>

\* upload, every identifier drawn being new
upload_L46(files) == upload_L46_drawing(files, uuid4)

\* upload, an identifier being drawn a second time
upload_L46_again(files) == upload_L46_drawing(files, uuid4_again)

\* variant of upload_L56: the job id is answered at once and the entry is
\* never put into the table
upload_L56_unregistered ==
    /\ up.pc = "L56"
    /\ dirs' = Mkdir(up.id, Saved(up.files))
    /\ up' = [up EXCEPT !.pc = "done",
                        !.code = IF Validate(up.files, TRUE) # 0
                                 THEN Validate(up.files, TRUE) ELSE 200]
    /\ UNCHANGED <<jobs, results, wpc, wloc, beats, tool, req, hist, held>>

\* lines 56-64: the loop saves the images (request.files.items() gives it
\* at most one part under `images`) and line 64 answers 400 if none was
\* saved; lines 85-86: answer 500 if the save raised
upload_L56 ==
    /\ up.pc = "L56"
    /\ dirs' = Mkdir(up.id, Saved(up.files))
    /\ up' = IF Validate(up.files, TRUE) # 0
             THEN [up EXCEPT !.pc = "done", !.code = Validate(up.files, TRUE)]
             ELSE [up EXCEPT !.pc = "L67"]
    /\ UNCHANGED <<jobs, results, wpc, wloc, beats, tool, req, hist, held>>

\* variant of upload_L67: the table is rebuilt with every entry as new
upload_L67_resets ==
    /\ up.pc = "L67"
    /\ jobs' = [k \in DOMAIN jobs \cup {up.id} |-> NewJob(k)]
    /\ hist' = [hist EXCEPT ![up.id] =
                   IF @ # <<>> /\ @[Len(@)] = NewJob(up.id).status
                   THEN @ ELSE Append(@, NewJob(up.id).status)]
    /\ held' = [held EXCEPT ![up.id] = @ \cup {Triple(NewJob(up.id))}]
    /\ up' = [up EXCEPT !.pc = "L81"]
    /\ UNCHANGED <<dirs, results, wpc, wloc, beats, tool, req>>

\* lines 67-73: jobs[job_id] = {...}
upload_L67 ==
    /\ up.pc = "L67"
    /\ jobs' = [k \in DOMAIN jobs \cup {up.id} |->
                   IF k = up.id THEN NewJob(up.id) ELSE jobs[k]]
    /\ hist' = [hist EXCEPT ![up.id] =
                   IF @ # <<>> /\ @[Len(@)] = NewJob(up.id).status
                   THEN @ ELSE Append(@, NewJob(up.id).status)]
    /\ held' = [held EXCEPT ![up.id] = @ \cup {Triple(NewJob(up.id))}]
    /\ up' = [up EXCEPT !.pc = "L81"]
    /\ UNCHANGED <<dirs, results, wpc, wloc, beats, tool, req>>

\* lines 76-81: thread.start(); the new thread has its own locals and no
\* subprocess.  Or thread.start() raises RuntimeError (the system grants
\* no further thread): no thread runs, and lines 85-86 answer 500 with the
\* entry of line 67 left in the table
upload_L81 ==
    /\ up.pc = "L81"
    /\ \/ /\ wpc' = [wpc EXCEPT ![up.id] = "L91"]
          /\ wloc' = [wloc EXCEPT ![up.id] = NoLoc]
          /\ beats' = [beats EXCEPT ![up.id] = 0]
          /\ tool' = [tool EXCEPT ![up.id] = NoTool]
          /\ up' = [up EXCEPT !.pc = "L83"]
       \/ /\ up' = [up EXCEPT !.pc = "done", !.code = 500]
          /\ UNCHANGED <<wpc, wloc, beats, tool>>
    /\ UNCHANGED <<jobs, dirs, results, req, hist, held>>

\* variant of upload_L83: the response waits for the worker to end
\* (thread.join())
upload_L83_joins ==
    /\ up.pc = "L83"
    /\ wpc[up.id] = "done"
    /\ up' = [up EXCEPT !.pc = "done", !.code = 200]
    /\ UNCHANGED <<jobs, dirs, results, wpc, wloc, beats, tool, req, hist, held>>

\* line 83: return jsonify({"jobId": job_id, ...}), 200
upload_L83 ==
    /\ up.pc = "L83"
    /\ up' = [up EXCEPT !.pc = "done", !.code = 200]
    /\ UNCHANGED <<jobs, dirs, results, wpc, wloc, beats, tool, req, hist, held>>

(***************************************************************************)
(* process_images (lines 88-153), one step per store into the job table.   *)
(***************************************************************************)
\* jobs[job_id][field] = value
Store(j, field, value) ==
    /\ jobs' = [jobs EXCEPT ![j][field] = value]
    /\ hist' = IF field = "status" /\ hist[j][Len(hist[j])] # value
               THEN [hist EXCEPT ![j] = Append(@, value)]
               ELSE hist
    /\ held' = [held EXCEPT ![j] = @ \cup {Triple(jobs'[j])}]

Goto(j, pc) == wpc' = [wpc EXCEPT ![j] = pc]

\* line 91
process_images_L91(j) ==
    /\ wpc[j] = "L91"
    /\ Store(j, "stage", Stage("Preparing images...", <<>>))
    /\ Goto(j, "L92")
    /\ UNCHANGED <<dirs, results, up, wloc, beats, tool, req>>

\* line 92
process_images_L92(j) ==
    /\ wpc[j] = "L92"
    /\ Store(j, "progress", F0_1)
    /\ Goto(j, "L96")
    /\ UNCHANGED <<dirs, results, up, wloc, beats, tool, req>>

\* what subprocess.run(["which", "photogrammetry"], timeout=2) can do:
\* return 0, return nonzero, time out, or raise another error
ProbeOutcomes == {"found", "notfound", "timeout", "error"}

\* variant of AfterProbe: an error other than FileNotFoundError and
\* TimeoutExpired is not caught and ends the thread
AfterProbe_uncaught(outcome) ==
    IF outcome = "found" THEN "L122"
    ELSE IF outcome \in {"notfound", "timeout"} THEN "L101"
    ELSE "done"

\* where the probe's outcome sends the worker (lines 95-100, 151)
AfterProbe(outcome) ==
    IF outcome = "found" THEN "L122"
    ELSE IF outcome \in {"notfound", "timeout"} THEN "L101"
    ELSE "L152"

\* lines 95-100
process_images_L96(j) ==
    /\ wpc[j] = "L96"
    /\ \E outcome \in ProbeOutcomes :
        /\ wloc' = [wloc EXCEPT ![j].probe = outcome]
        /\ Goto(j, AfterProbe(outcome))
    /\ UNCHANGED <<jobs, dirs, results, up, beats, tool, req, hist, held>>

\* line 101
process_images_L101(j) ==
    /\ wpc[j] = "L101"
    /\ Store(j, "status", "failed")
    /\ Goto(j, "L102")
    /\ UNCHANGED <<dirs, results, up, wloc, beats, tool, req>>

\* line 102
process_images_L102(j) ==
    /\ wpc[j] = "L102"
    /\ Store(j, "stage",
             Stage("Error: photogrammetry CLI tool not installed. ...", <<>>))
    /\ Goto(j, "L103")
    /\ UNCHANGED <<dirs, results, up, wloc, beats, tool, req>>

\* lines 103-104
process_images_L103(j) ==
    /\ wpc[j] = "L103"
    /\ Store(j, "progress", F0_0)
    /\ Goto(j, "done")
    /\ UNCHANGED <<dirs, results, up, wloc, beats, tool, req>>

\* line 122
process_images_L122(j) ==
    /\ wpc[j] = "L122"
    /\ Store(j, "stage", Stage("Processing images...", <<>>))
    /\ Goto(j, "L123")
    /\ UNCHANGED <<dirs, results, up, wloc, beats, tool, req>>

\* line 123
process_images_L123(j) ==
    /\ wpc[j] = "L123"
    /\ Store(j, "progress", F0_2)
    /\ Goto(j, "L126")
    /\ UNCHANGED <<dirs, results, up, wloc, beats, tool, req>>

\* lines 126-131: subprocess.Popen starts the tool, or raises
process_images_L126(j) ==
    /\ wpc[j] = "L126"
    /\ \/ /\ tool' = [tool EXCEPT ![j] = [state |-> "running"]]
          /\ Goto(j, "L134")
       \/ /\ tool' = tool
          /\ Goto(j, "L152")
    /\ UNCHANGED <<jobs, dirs, results, up, wloc, beats, req, hist, held>>

\* process.poll() is None: the subprocess has not exited
Alive == {"running", "blocked"}

\* line 134: while process.poll() is None, for any number of iterations
process_images_L134_unbounded(j) ==
    /\ wpc[j] = "L134"
    /\ IF tool[j].state \in Alive
       THEN Goto(j, "L135")
       ELSE Goto(j, "L140")
    /\ UNCHANGED <<jobs, dirs, results, up, wloc, beats, tool, req, hist, held>>

\* line 134, for at most MaxBeats iterations of the loop
process_images_L134(j) ==
    /\ tool[j].state \in Alive => beats[j] < MaxBeats
    /\ process_images_L134_unbounded(j)

\* lines 137-138: the value the heartbeat leaves in progress
Heartbeat(p) == IF FLt(p, F0_9) THEN FAdd(p, F0_01) ELSE p

\* lines 135-138
process_images_L135(j) ==
    /\ wpc[j] = "L135"
    /\ Store(j, "progress", Heartbeat(jobs[j].progress))
    /\ beats' = [beats EXCEPT ![j] = IF @ < MaxBeats THEN @ + 1 ELSE @]
    /\ Goto(j, "L134")
    /\ UNCHANGED <<dirs, results, up, wloc, tool, req>>

\* line 140: process.communicate() returns the decoded output, or raises
\* (text=True decodes the pipes)
process_images_L140(j) ==
    /\ wpc[j] = "L140"
    /\ tool[j].state = "exited"
    /\ \/ /\ wloc' = [wloc EXCEPT ![j].returncode = tool[j].returncode,
                                   ![j].stderr = tool[j].stderr]
          /\ Goto(j, "L142")
       \/ /\ wloc' = wloc
          /\ Goto(j, "L152")
    /\ UNCHANGED <<jobs, dirs, results, up, beats, tool, req, hist, held>>

\* line 142: process.returncode == 0 and output_file.exists()
Succeeded(returncode, exists) == returncode = 0 /\ exists

process_images_L142(j) ==
    /\ wpc[j] = "L142"
    /\ LET exists == ResultPath(j) \in results
       IN  /\ wloc' = [wloc EXCEPT ![j].exists = exists]
           /\ Goto(j, IF Succeeded(wloc[j].returncode, exists)
                      THEN "L143" ELSE "L148")
    /\ UNCHANGED <<jobs, dirs, results, up, beats, tool, req, hist, held>>

\* line 143
process_images_L143(j) ==
    /\ wpc[j] = "L143"
    /\ Store(j, "status", "completed")
    /\ Goto(j, "L144")
    /\ UNCHANGED <<dirs, results, up, wloc, beats, tool, req>>

\* line 144
process_images_L144(j) ==
    /\ wpc[j] = "L144"
    /\ Store(j, "progress", F1_0)
    /\ Goto(j, "L145")
    /\ UNCHANGED <<dirs, results, up, wloc, beats, tool, req>>

\* line 145
process_images_L145(j) ==
    /\ wpc[j] = "L145"
    /\ Store(j, "stage", Stage("Processing complete", <<>>))
    /\ Goto(j, "L146")
    /\ UNCHANGED <<dirs, results, up, wloc, beats, tool, req>>

\* variant of process_images_L146: the statement after the store raises,
\* which sends the worker to the handler of line 151
process_images_L146_raises(j) ==
    /\ wpc[j] = "L146"
    /\ Store(j, "output_file", ResultPath(j))
    /\ Goto(j, "L152")
    /\ UNCHANGED <<dirs, results, up, wloc, beats, tool, req>>

\* line 146
process_images_L146(j) ==
    /\ wpc[j] = "L146"
    /\ Store(j, "output_file", ResultPath(j))
    /\ Goto(j, "done")
    /\ UNCHANGED <<dirs, results, up, wloc, beats, tool, req>>

\* line 148
process_images_L148(j) ==
    /\ wpc[j] = "L148"
    /\ Store(j, "status", "failed")
    /\ Goto(j, "L149")
    /\ UNCHANGED <<dirs, results, up, wloc, beats, tool, req>>

\* variant of FailedStage: the error output is not cut
FailedStage_uncut(stderr) == Stage("Processing failed: ", stderr)

\* f"Processing failed: {stderr[:100]}"
FailedStage(stderr) == Stage("Processing failed: ", Slice(stderr, ErrCap))

\* line 149
process_images_L149(j) ==
    /\ wpc[j] = "L149"
    /\ Store(j, "stage", FailedStage(wloc[j].stderr))
    /\ Goto(j, "done")
    /\ UNCHANGED <<dirs, results, up, wloc, beats, tool, req>>

\* line 152
process_images_L152(j) ==
    /\ wpc[j] = "L152"
    /\ Store(j, "status", "failed")
    /\ Goto(j, "L153")
    /\ UNCHANGED <<dirs, results, up, wloc, beats, tool, req>>

\* line 153
process_images_L153(j) ==
    /\ wpc[j] = "L153"
    /\ Store(j, "stage", Stage("Error: ", ExcText))
    /\ Goto(j, "done")
    /\ UNCHANGED <<dirs, results, up, wloc, beats, tool, req>>

(***************************************************************************)
(* The photogrammetry subprocess started at line 126, and the results      *)
(* directory it writes to.                                                  *)
(***************************************************************************)
\* the tool writes its output file (the second argument of cmd, line 114)
tool_write(j) ==
    /\ tool[j].state = "running"
    /\ ResultPath(j) \notin results
    /\ results' = results \cup {ResultPath(j)}
    /\ UNCHANGED <<jobs, dirs, up, wpc, wloc, beats, tool, req, hist, held>>

\* the tool has filled the pipe of its stdout or stderr (Popen of lines
\* 126-131 gives it pipes, which nothing reads before line 140) and waits
\* in write() for the pipe to be read
tool_blocks(j) ==
    /\ tool[j].state = "running"
    /\ tool' = [tool EXCEPT ![j] = [state |-> "blocked"]]
    /\ UNCHANGED <<jobs, dirs, results, up, wpc, wloc, beats, req, hist, held>>

\* the tool exits with a return code, having written n characters to stderr
tool_exit(j) ==
    /\ tool[j].state = "running"
    /\ \E rc \in {0, 1}, n \in ErrLens :
        tool' = [tool EXCEPT ![j] = [state |-> "exited", returncode |-> rc,
                                     stderr |-> ErrText(n)]]
    /\ UNCHANGED <<jobs, dirs, results, up, wpc, wloc, beats, req, hist, held>>

\* a result file is removed from /tmp by something other than this program
\* (download checks for it at line 179)
results_removed(j) ==
    /\ ResultPath(j) \in results
    /\ tool[j].state = "exited"
    /\ results' = results \ {ResultPath(j)}
    /\ UNCHANGED <<jobs, dirs, up, wpc, wloc, beats, tool, req, hist, held>>

(***************************************************************************)
(* status (lines 155-166) and download (lines 168-187).  One client sends  *)
(* one request after the other, for any identifier.                        *)
(***************************************************************************)
\* the status the table holds for id when a request arrives
Held(id) == IF id \in DOMAIN jobs THEN jobs[id].status ELSE "absent"

\* what a client keeps of a status response
Poll(r) == [status |-> r.status, progress |-> r.progress]

\* the poll that immediately preceded a new status request for id
Preceding(id) ==
    IF req.kind = "status" /\ req.id = id /\ req.code = 200
    THEN Poll(req) ELSE NoPoll

\* the latest upload has answered 200 with the job id
Returned(id) == up.id = id /\ up.pc = "done" /\ up.code = 200

Request(kind, id, pc) ==
    [NoReq EXCEPT !.kind = kind, !.id = id, !.pc = pc, !.was = Held(id),
                  !.returned = Returned(id),
                  !.prev = IF kind = "status" THEN Preceding(id) ELSE NoPoll]

Response(r, code) == [r EXCEPT !.pc = "done", !.code = code]

\* lines 158-161: if job_id not in jobs: 404; job = jobs[job_id]
status_L158(id) ==
    /\ req.pc \in {"idle", "done"}
    /\ req' = IF id \notin DOMAIN jobs
              THEN Response(Request("status", id, "L158"), 404)
              ELSE Request("status", id, "L163")
    /\ UNCHANGED <<jobs, dirs, results, up, wpc, wloc, beats, tool, hist, held>>

\* line 163: job["status"]
status_L163 ==
    /\ req.kind = "status" /\ req.pc = "L163"
    /\ req' = [req EXCEPT !.status = jobs[req.id].status, !.pc = "L164"]
    /\ UNCHANGED <<jobs, dirs, results, up, wpc, wloc, beats, tool, hist, held>>

\* line 164: job["progress"]
status_L164 ==
    /\ req.kind = "status" /\ req.pc = "L164"
    /\ req' = [req EXCEPT !.progress = jobs[req.id].progress, !.pc = "L165"]
    /\ UNCHANGED <<jobs, dirs, results, up, wpc, wloc, beats, tool, hist, held>>

\* lines 165-166: job["stage"], and the 200 response
status_L165 ==
    /\ req.kind = "status" /\ req.pc = "L165"
    /\ req' = Response([req EXCEPT !.stage = jobs[req.id].stage], 200)
    /\ UNCHANGED <<jobs, dirs, results, up, wpc, wloc, beats, tool, hist, held>>

\* lines 171-174: if job_id not in jobs: 404; job = jobs[job_id]
download_L171(id) ==
    /\ req.pc \in {"idle", "done"}
    /\ req' = IF id \notin DOMAIN jobs
              THEN Response(Request("download", id, "L171"), 404)
              ELSE Request("download", id, "L175")
    /\ UNCHANGED <<jobs, dirs, results, up, wpc, wloc, beats, tool, hist, held>>

\* variant of download_L175: an entry that is not completed is answered
\* like an unknown one
download_L175_not_found ==
    /\ req.kind = "download" /\ req.pc = "L175"
    /\ LET r == [req EXCEPT !.status = jobs[req.id].status]
       IN  req' = IF r.status # "completed"
                  THEN Response(r, 404)
                  ELSE [r EXCEPT !.pc = "L175b"]
    /\ UNCHANGED <<jobs, dirs, results, up, wpc, wloc, beats, tool, hist, held>>

\* variant of download_L175: the status is not tested and the file is
\* looked up under the path derived from the job id
download_L175_unchecked ==
    /\ req.kind = "download" /\ req.pc = "L175"
    /\ req' = [req EXCEPT !.status = jobs[req.id].status,
                          !.output_file = ResultPath(req.id), !.pc = "L179"]
    /\ UNCHANGED <<jobs, dirs, results, up, wpc, wloc, beats, tool, hist, held>>

\* line 175, left operand of `or`: job["status"] != "completed"
download_L175 ==
    /\ req.kind = "download" /\ req.pc = "L175"
    /\ LET r == [req EXCEPT !.status = jobs[req.id].status]
       IN  req' = IF r.status # "completed"
                  THEN Response(r, 400)
                  ELSE [r EXCEPT !.pc = "L175b"]
    /\ UNCHANGED <<jobs, dirs, results, up, wpc, wloc, beats, tool, hist, held>>

\* line 175, right operand of `or`: not job["output_file"]
download_L175b ==
    /\ req.kind = "download" /\ req.pc = "L175b"
    /\ req' = IF jobs[req.id].output_file = None
              THEN Response(req, 400)
              ELSE [req EXCEPT !.pc = "L178"]
    /\ UNCHANGED <<jobs, dirs, results, up, wpc, wloc, beats, tool, hist, held>>

\* line 178: output_file = Path(job["output_file"])
download_L178 ==
    /\ req.kind = "download" /\ req.pc = "L178"
    /\ req' = [req EXCEPT !.output_file = jobs[req.id].output_file,
                          !.pc = "L179"]
    /\ UNCHANGED <<jobs, dirs, results, up, wpc, wloc, beats, tool, hist, held>>

\* lines 179-180: 404 if output_file.exists() is false
download_L179 ==
    /\ req.kind = "download" /\ req.pc = "L179"
    /\ req' = IF req.output_file \notin results
              THEN Response(req, 404)
              ELSE [req EXCEPT !.pc = "L182"]
    /\ UNCHANGED <<jobs, dirs, results, up, wpc, wloc, beats, tool, hist, held>>

\* lines 182-187: send_file opens the file and answers 200 with it; if the
\* file is gone since line 179 it raises FileNotFoundError, which download
\* does not catch, and Flask answers 500
download_L182 ==
    /\ req.kind = "download" /\ req.pc = "L182"
    /\ req' = IF req.output_file \notin results
              THEN Response(req, 500)
              ELSE Response([req EXCEPT !.file = req.output_file], 200)
    /\ UNCHANGED <<jobs, dirs, results, up, wpc, wloc, beats, tool, hist, held>>

(***************************************************************************)
(* The whole program.                                                      *)
(***************************************************************************)
Next ==
    \/ \E files \in FileLists : upload_L46(files)
    \/ upload_L56
    \/ upload_L67
    \/ upload_L81
    \/ upload_L83
    \/ \E j \in JobIds : process_images_L91(j)
    \/ \E j \in JobIds : process_images_L92(j)
    \/ \E j \in JobIds : process_images_L96(j)
    \/ \E j \in JobIds : process_images_L101(j)
    \/ \E j \in JobIds : process_images_L102(j)
    \/ \E j \in JobIds : process_images_L103(j)
    \/ \E j \in JobIds : process_images_L122(j)
    \/ \E j \in JobIds : process_images_L123(j)
    \/ \E j \in JobIds : process_images_L126(j)
    \/ \E j \in JobIds : process_images_L134(j)
    \/ \E j \in JobIds : process_images_L135(j)
    \/ \E j \in JobIds : process_images_L140(j)
    \/ \E j \in JobIds : process_images_L142(j)
    \/ \E j \in JobIds : process_images_L143(j)
    \/ \E j \in JobIds : process_images_L144(j)
    \/ \E j \in JobIds : process_images_L145(j)
    \/ \E j \in JobIds : process_images_L146(j)
    \/ \E j \in JobIds : process_images_L148(j)
    \/ \E j \in JobIds : process_images_L149(j)
    \/ \E j \in JobIds : process_images_L152(j)
    \/ \E j \in JobIds : process_images_L153(j)
    \/ \E j \in JobIds : tool_write(j)
    \/ \E j \in JobIds : tool_blocks(j)
    \/ \E j \in JobIds : tool_exit(j)
    \/ \E j \in JobIds : results_removed(j)
    \/ \E id \in ReqIds : status_L158(id)
    \/ status_L163
    \/ status_L164
    \/ status_L165
    \/ \E id \in ReqIds : download_L171(id)
    \/ download_L175
    \/ download_L175b
    \/ download_L178
    \/ download_L179
    \/ download_L182

Spec == Init /\ [][Next]_vars

(***************************************************************************)
(* Uploads, workers and subprocesses without the client, the polling loop  *)
(* running for any number of iterations.                                   *)
(***************************************************************************)
\* the steps of upload after line 48
upload_steps ==
    \/ upload_L56
    \/ upload_L67
    \/ upload_L81
    \/ upload_L83

\* the steps of job j's worker thread but the loop test of line 134
process_images_but_L134(j) ==
    \/ process_images_L91(j)
    \/ process_images_L92(j)
    \/ process_images_L96(j)
    \/ process_images_L101(j)
    \/ process_images_L102(j)
    \/ process_images_L103(j)
    \/ process_images_L122(j)
    \/ process_images_L123(j)
    \/ process_images_L126(j)
    \/ process_images_L135(j)
    \/ process_images_L140(j)
    \/ process_images_L142(j)
    \/ process_images_L143(j)
    \/ process_images_L144(j)
    \/ process_images_L145(j)
    \/ process_images_L146(j)
    \/ process_images_L148(j)
    \/ process_images_L149(j)
    \/ process_images_L152(j)
    \/ process_images_L153(j)

\* the steps of job j's worker thread
process_images(j) ==
    \/ process_images_but_L134(j)
    \/ process_images_L134_unbounded(j)

\* the steps of job j's subprocess and of the results directory
tool_steps(j) ==
    \/ tool_write(j)
    \/ tool_blocks(j)
    \/ tool_exit(j)
    \/ results_removed(j)

NextWorkers ==
    \/ \E files \in FileLists : upload_L46(files)
    \/ upload_steps
    \/ \E j \in JobIds : process_images(j)
    \/ \E j \in JobIds : tool_write(j)
    \/ \E j \in JobIds : tool_blocks(j)
    \/ \E j \in JobIds : tool_exit(j)
    \/ \E j \in JobIds : results_removed(j)

SpecWorkers == Init /\ [][NextWorkers]_vars

\* SpecWorkers under fair scheduling: a request handler and a worker thread
\* that can take a step eventually take one, and a subprocess that can exit
\* eventually exits
FairSpec ==
    /\ SpecWorkers
    /\ WF_vars(upload_steps)
    /\ \A j \in JobIds : WF_vars(process_images(j))
    /\ \A j \in JobIds : WF_vars(tool_exit(j))

(***************************************************************************)
(* Uploads, workers and subprocesses without the client, uuid4 drawing an  *)
(* identifier a second time.                                               *)
(***************************************************************************)
\* an upload of one image
OneImage == {<<[key |-> "images", filename |-> "a.jpg"]>>}

NextAgain ==
    \/ \E files \in OneImage : upload_L46(files)
    \/ \E files \in OneImage : upload_L46_again(files)
    \/ upload_steps
    \/ \E j \in JobIds : process_images_but_L134(j)
    \/ \E j \in JobIds : process_images_L134(j)
    \/ \E j \in JobIds : tool_steps(j)

SpecAgain == Init /\ [][NextAgain]_vars

(***************************************************************************)
(* Uploads, workers and subprocesses of several jobs side by side, without *)
(* the client.                                                             *)
(***************************************************************************)
NextPair ==
    \/ \E files \in OneImage : upload_L46_drawing(files, Fresh(PairIds))
    \/ upload_steps
    \/ \E j \in PairIds : process_images_but_L134(j)
    \/ \E j \in PairIds : process_images_L134(j)
    \/ \E j \in PairIds : tool_steps(j)

SpecPair == Init /\ [][NextPair]_vars

(***************************************************************************)
(* Properties.                                                             *)
(***************************************************************************)
\* the edges of the status state machine of the specification
Edges ==
    {<<"pending", "processing">>, <<"processing", "completed">>,
     <<"processing", "failed">>, <<"pending", "failed">>}

\* C1: in every step, for every job in the table, the entry stays in the
\* table and its status either stays the same or changes along one of the
\* edges Pending -> Processing, Processing -> Completed, Processing ->
\* Failed, Pending -> Failed; so no step changes a Completed or Failed status.
C1_StatusEdges ==
    [][\A j \in DOMAIN jobs :
          /\ j \in DOMAIN jobs'
          /\ jobs'[j].status # jobs[j].status
                => <<jobs[j].status, jobs'[j].status>> \in Edges]_vars

\* a worker ran to its end and its job went from processing to completed
C1_Witness ==
    \E j \in DOMAIN jobs :
        wpc[j] = "done" /\ hist[j] = <<"processing", "completed">>

\* C2: when a status poll answers with a status that is not terminal, the
\* progress it reports is not below the progress the same client got from
\* its preceding poll of the same job.
C2_PollsNonDecreasing ==
    (/\ req.kind = "status" /\ req.pc = "done" /\ req.code = 200
     /\ req.prev # NoPoll
     /\ req.status \notin Terminal)
        => FLe(req.prev.progress, req.progress)

\* C3: in every state, a job's progress is 1.0 exactly if its status is
\* completed.
C3_ProgressOneIffCompleted ==
    \A j \in DOMAIN jobs :
        (jobs[j].progress = F1_0) <=> (jobs[j].status = "completed")

\* C4: in every state, a job's output_file is set exactly if its status is
\* completed.
C4_OutputIffCompleted ==
    \A j \in DOMAIN jobs :
        (jobs[j].output_file # None) <=> (jobs[j].status = "completed")

\* the number of image payloads of an upload: the parts sent under the
\* field `images` that carry a file (a file input left empty sends a part
\* with the filename "" and no content)
NumImages(files) ==
    Cardinality({i \in 1..Len(files) :
                    files[i].key = "images" /\ files[i].filename # ""})

\* C5: every step of an upload request without any image payload leaves
\* the job table as it was and every worker where it was (none is started);
\* the request does not get past the check of line 63, and the step that
\* answers it answers 400.
C5_EmptyUploadRejected ==
    [][(up' # up /\ NumImages(up'.files) = 0)
          => /\ up'.pc \in {"L56", "done"}
             /\ up'.pc = "done" => up'.code = 400
             /\ jobs' = jobs
             /\ wpc' = wpc]_vars

\* C6: a job whose worker found the tool unreachable (the probe returned
\* nonzero or timed out) and ran to its end is failed with progress 0.0,
\* and its entry never held the status processing.
C6_ToolMissingNeverProcessing ==
    \A j \in DOMAIN jobs :
        (wpc[j] = "done" /\ wloc[j].probe \in {"notfound", "timeout"})
            => /\ jobs[j].status = "failed"
               /\ jobs[j].progress = F0_0
               /\ \A i \in 1..Len(hist[j]) : hist[j][i] # "processing"

\* C7: a download request that arrives when the job's status is completed,
\* and whose result file is on disk, is answered 200 with that file.
C7_DownloadAfterCompleted ==
    (/\ req.kind = "download" /\ req.pc = "done"
     /\ req.was = "completed"
     /\ ResultPath(req.id) \in results)
        => (req.code = 200 /\ req.file = ResultPath(req.id))

\* s is the beginning of t
IsPrefix(s, t) == Len(s) <= Len(t) /\ \A i \in 1..Len(s) : s[i] = t[i]

\* C8: a job whose subprocess exited nonzero, or exited while the check of
\* line 142 did not find the result file, and whose worker ran to its end,
\* is failed with no output_file; its stage is either the message of the
\* exception handler or "Processing failed: " followed by a beginning of
\* the error output of at most 100 characters.
C8_FailedExcerpt ==
    \A j \in DOMAIN jobs :
        (/\ wpc[j] = "done" /\ tool[j].state = "exited"
         /\ (tool[j].returncode # 0 \/ ~wloc[j].exists))
            => /\ jobs[j].status = "failed"
               /\ jobs[j].output_file = None
               /\ IF jobs[j].stage.msg = "Processing failed: "
                  THEN /\ Len(jobs[j].stage.detail) <= 100
                       /\ IsPrefix(jobs[j].stage.detail, tool[j].stderr)
                  ELSE jobs[j].stage = Stage("Error: ", ExcText)

\* a job failed on a nonzero exit with more than 100 characters of error
\* output, of which the stage holds 100
C8_Witness ==
    \E j \in DOMAIN jobs :
        /\ wpc[j] = "done" /\ tool[j].state = "exited"
        /\ tool[j].returncode # 0
        /\ Len(tool[j].stderr) > 100
        /\ jobs[j].stage.msg = "Processing failed: "
        /\ Len(jobs[j].stage.detail) = 100

\* C9: a request for an id that is not in the table (now, or when the
\* request arrived) is answered 404; a download for an id that was in the
\* table when the request arrived and whose status is not completed is
\* answered 400; and 400 is never the answer for an id that was not in the
\* table.
C9_NotFoundVersusNotReady ==
    req.pc = "done" =>
        /\ req.id \notin DOMAIN jobs => req.code = 404
        /\ req.was = "absent" => req.code = 404
        /\ (/\ req.kind = "download" /\ req.was # "absent"
            /\ jobs[req.id].status # "completed") => req.code = 400
        /\ (req.kind = "status" /\ req.was # "absent") => req.code = 200
        /\ req.code = 400 => (req.kind = "download" /\ req.was # "absent")

\* a download for a job in the table that is still processing was answered 400
C9_Witness ==
    /\ req.pc = "done" /\ req.kind = "download" /\ req.code = 400
    /\ req.was = "processing" /\ jobs[req.id].status = "processing"

\* C10: a download that is answered with the file (200) read the status
\* completed, and the job's status is completed; any other answer carries
\* no file.
C10_FileOnlyWhenCompleted ==
    (req.kind = "download" /\ req.pc = "done") =>
        /\ req.code = 200 => (/\ req.status = "completed"
                              /\ jobs[req.id].status = "completed"
                              /\ req.file = ResultPath(req.id))
        /\ req.code # 200 => req.file = None

\* a download was answered with the file
C10_Witness ==
    /\ req.kind = "download" /\ req.pc = "done" /\ req.code = 200
    /\ req.file = ResultPath(req.id)

\* C11: once upload has answered 200 with a job id, the table holds an
\* entry for it, no step removes an entry from the table, and a status
\* request for that id that arrives after the answer is answered 200.
C11_RegisteredOnReturn ==
    /\ [](/\ (up.pc = "done" /\ up.code = 200) => up.id \in DOMAIN jobs
          /\ (req.kind = "status" /\ req.pc = "done" /\ req.returned)
                => (req.code = 200 /\ req.id \in DOMAIN jobs))
    /\ [][DOMAIN jobs \subseteq DOMAIN jobs']_vars

\* a status request that arrived after the upload's answer was answered 200
C11_Witness ==
    /\ up.pc = "done" /\ up.code = 200
    /\ req.kind = "status" /\ req.pc = "done" /\ req.id = up.id
    /\ req.returned /\ req.code = 200

\* C12: the step that answers the upload (line 83) can be taken whenever the
\* handler has reached it, wherever the job's worker and subprocess are.
C12_ReturnNeverWaits ==
    up.pc = "L83" => ENABLED upload_L83

\* the upload was answered while the worker had not run its first step and
\* no subprocess had been started
C12_Witness ==
    /\ up.pc = "done" /\ up.code = 200
    /\ wpc[up.id] = "L91" /\ tool[up.id].state = "none"

\* C14: after an upload answered 200, every part sent under `images` has
\* its filename in the job directory, holding that part's content, or the
\* content of a later part sent under the same filename.
C14_AllImagesSaved ==
    (up.pc = "done" /\ up.code = 200) =>
        \A i \in 1..Len(up.files) :
            up.files[i].key = "images" =>
                /\ up.files[i].filename \in DOMAIN dirs[up.id]
                /\ \/ dirs[up.id][up.files[i].filename] = i
                   \/ \E k \in (i+1)..Len(up.files) :
                        /\ up.files[k].key = "images"
                        /\ up.files[k].filename = up.files[i].filename
                        /\ dirs[up.id][up.files[i].filename] = k

\* the worker's run met an exception: the probe raised another error,
\* Popen raised, or communicate raised
Raised(j) ==
    \/ wloc[j].probe = "error"
    \/ wloc[j].probe = "found" /\ tool[j].state = "none"
    \/ tool[j].state = "exited" /\ wloc[j].returncode = -1

\* C16: a worker that met an exception and has ended left its job failed
\* with the stage "Error: " followed by the exception's text; a worker that
\* has ended never leaves its job's status non-terminal.
C16_ExceptionsCaught ==
    \A j \in DOMAIN jobs :
        wpc[j] = "done" =>
            /\ jobs[j].status \in Terminal
            /\ Raised(j) => /\ jobs[j].status = "failed"
                            /\ jobs[j].stage = Stage("Error: ", ExcText)

\* workers ended after an exception of the probe
C16_Witness ==
    \E j \in DOMAIN jobs :
        /\ wpc[j] = "done" /\ wloc[j].probe = "error"
        /\ jobs[j].status = "failed"

\* C20: in every step, a worker starts (reaches line 91) only from not
\* having been started and is never started again, every worker that has
\* been started belongs to a job id that is in the table, and an entry is
\* without a worker only while its upload stands before line 81.
C20_WorkerAfterInsert ==
    [][\A j \in JobIds :
          /\ (wpc'[j] = "L91" /\ wpc[j] # "L91") => wpc[j] = "none"
          /\ wpc[j] # "none" => wpc'[j] # "none"
          /\ wpc'[j] # "none" => j \in DOMAIN jobs'
          /\ (j \in DOMAIN jobs' /\ wpc'[j] = "none")
                => (up'.id = j /\ up'.pc = "L81")]_vars

\* C19: the (status, progress, stage) triple of every status response
\* answered 200 is one that the job's entry has held.
C19_ResponseWasHeld ==
    (req.kind = "status" /\ req.pc = "done" /\ req.code = 200) =>
        <<req.status, req.progress, req.stage>> \in held[req.id]

\* C15: every job in the table whose worker was started eventually has a
\* terminal status.
C15_EventuallyTerminal ==
    \A j \in JobIds :
        (j \in DOMAIN jobs /\ wpc[j] # "none")
            ~> (j \in DOMAIN jobs /\ jobs[j].status \in Terminal)

\* C17: while the subprocess of a job has not exited, the job's progress
\* is at most 0.9.
C17_HeartbeatCeiling ==
    \A j \in DOMAIN jobs :
        tool[j].state \in Alive => FLe(jobs[j].progress, F0_9)

\* C13: the step that registers a job (line 67) leaves every entry that is
\* already in the table as it is.
C13_NeverOverwritten ==
    [][\A j \in DOMAIN jobs : up.pc = "L67" => jobs'[j] = jobs[j]]_vars

\* C18: a step that changes an entry of the table is a step of that
\* entry's own worker.
C18_OnlyOwnWorker ==
    [][\A j \in DOMAIN jobs : jobs'[j] # jobs[j] => wpc'[j] # wpc[j]]_vars

\* the second job was uploaded and its worker ran to its end while the
\* first job's worker stood at line 123: the first entry is as its worker
\* left it
C18_Witness ==
    /\ DOMAIN jobs = PairIds
    /\ wpc[1] = "L123" /\ wpc[2] = "done" /\ up.id = 2 /\ up.pc = "done"
    /\ jobs[1] = [NewJob(1) EXCEPT
                     !.progress = F0_1,
                     !.stage = Stage("Processing images...", <<>>)]
    /\ jobs[2].status \in Terminal

=============================================================================
